---- MODULE Spec2Model ----
(***************************************************************************)
(* Ownership and navigation model of melior's IR wrappers: Block/BlockRef  *)
(* (src/src/ir/block.rs) and Operation/OperationRef                        *)
(* (src/src/ir/operation.rs) over the MLIR engine.  The engine's graph is  *)
(* the variable `engine`; the host's owning wrappers are the variable      *)
(* `host`; `last` records the most recent call with its return value,      *)
(* `appended` the block most recently appended to each region, `refs` the  *)
(* borrowed references the client holds in variables, `passes` the         *)
(* process-wide state of register_all_passes (src/src/utility.rs), and     *)
(* `destroyed` the objects the engine destroyed during the most recent     *)
(* call.                                                                   *)
(***************************************************************************)
EXTENDS Integers, Sequences, FiniteSets, TLC

VARIABLES engine, host, last, appended, refs, passes, destroyed

vars == <<engine, host, last, appended, refs, passes, destroyed>>

(* ------------------------------ bounds -------------------------------- *)

MaxOperations == 3
MaxBlocks == 3
MaxRegions == 1
MaxArguments == 2
MaxResults == 1
MaxThreads == 3
MaxCalls == 3

(* ----------------------------- universe ------------------------------- *)

\* The null pointer of a raw engine handle (`raw.ptr.is_null()`).
NULL == 0

OperationIds == 1..MaxOperations
BlockIds == 1..MaxBlocks
RegionIds == 1..MaxRegions

Types == {"i64", "index"}
Names == {"foo", "func.return"}
Locations == {"loc(unknown)"}

SeqsUpTo(S, n) == UNION {[1..k -> S] : k \in 0..n}

RECURSIVE Concat(_)
Concat(chunks) ==
    IF chunks = <<>> THEN "" ELSE Head(chunks) \o Concat(Tail(chunks))

RECURSIVE Flatten(_)
Flatten(seqs) ==
    IF seqs = <<>> THEN <<>> ELSE Head(seqs) \o Flatten(Tail(seqs))

Remove(s, x) == SelectSeq(s, LAMBDA y : y # x)

IndexOf(s, x) == IF \E i \in 1..Len(s) : s[i] = x
                 THEN CHOOSE i \in 1..Len(s) : s[i] = x
                 ELSE 0

InsertAt(s, i, x) == SubSeq(s, 1, i) \o <<x>> \o SubSeq(s, i + 1, Len(s))

Range(s) == {s[i] : i \in 1..Len(s)}

(* Option and Result values of the host language. *)
None == [tag |-> "None"]
Some(v) == [tag |-> "Some", value |-> v]
Ok(v) == [tag |-> "Ok", value |-> v]
Err(e) == [tag |-> "Err", error |-> e]

\* What an engine accessor yields when its precondition is violated.
Undefined == [kind |-> "undefined"]

(* ------------------------- engine object store ------------------------ *)

FreeOperation ==
    [state |-> "free", name |-> "", results |-> <<>>, regions |-> <<>>,
     block |-> NULL]

FreeBlock ==
    [state |-> "free", arguments |-> <<>>, operations |-> <<>>, region |-> NULL]

FreeRegion == [state |-> "free", blocks |-> <<>>, operation |-> NULL]

EngineInit ==
    [operations |-> [o \in OperationIds |-> FreeOperation],
     blocks |-> [b \in BlockIds |-> FreeBlock],
     regions |-> [r \in RegionIds |-> FreeRegion]]

LiveOperations(e) == {o \in OperationIds : e.operations[o].state = "live"}
LiveBlocks(e) == {b \in BlockIds : e.blocks[b].state = "live"}
LiveRegions(e) == {r \in RegionIds : e.regions[r].state = "live"}

FreeOperations(e) == {o \in OperationIds : e.operations[o].state = "free"}
FreeBlocks(e) == {b \in BlockIds : e.blocks[b].state = "free"}
FreeRegions(e) == {r \in RegionIds : e.regions[r].state = "free"}

\* The engine's allocator: addresses are handed out in increasing order and
\* never reused.
Lowest(S) == CHOOSE x \in S : \A y \in S : x <= y

(* ----------------------- engine: containment -------------------------- *)

\* Objects reachable downwards from a set of roots, as a record of sets.
RECURSIVE Closure(_, _, _, _)
Closure(e, os, bs, rs) ==
    LET os2 == os \cup UNION {Range(e.blocks[b].operations) : b \in bs}
        bs2 == bs \cup UNION {Range(e.regions[r].blocks) : r \in rs}
        rs2 == rs \cup UNION {Range(e.operations[o].regions) : o \in os}
    IN IF os2 = os /\ bs2 = bs /\ rs2 = rs
       THEN [operations |-> os, blocks |-> bs, regions |-> rs]
       ELSE Closure(e, os2, bs2, rs2)

\* Destroys every object of a closure.
Destroy(e, c) ==
    [operations |-> [o \in OperationIds |->
                        IF o \in c.operations
                        THEN [FreeOperation EXCEPT !.state = "dead"]
                        ELSE e.operations[o]],
     blocks |-> [b \in BlockIds |->
                        IF b \in c.blocks
                        THEN [FreeBlock EXCEPT !.state = "dead"]
                        ELSE e.blocks[b]],
     regions |-> [r \in RegionIds |->
                        IF r \in c.regions
                        THEN [FreeRegion EXCEPT !.state = "dead"]
                        ELSE e.regions[r]]]

(* ------------------------ engine: block primitives -------------------- *)

mlirBlockCreate(e, nArgs, args, locs) ==
    LET raw == Lowest(FreeBlocks(e))
    IN [engine |-> [e EXCEPT !.blocks[raw] =
                        [state |-> "live",
                         arguments |-> [i \in 1..nArgs |->
                                          [type |-> args[i],
                                           location |-> locs[i]]],
                         operations |-> <<>>,
                         region |-> NULL]],
        raw |-> raw]

mlirBlockDestroy(e, block) ==
    Destroy(e, Closure(e, {}, {block}, {}))

mlirBlockGetNumArguments(e, block) == Len(e.blocks[block].arguments)

mlirBlockGetArgument(e, block, pos) ==
    IF 0 <= pos /\ pos < Len(e.blocks[block].arguments)
    THEN [kind |-> "argument", block |-> block, position |-> pos,
          type |-> e.blocks[block].arguments[pos + 1].type]
    ELSE Undefined

mlirBlockAddArgument(e, block, type, loc) ==
    [engine |-> [e EXCEPT !.blocks[block].arguments =
                              Append(@, [type |-> type, location |-> loc])],
     raw |-> [kind |-> "argument", block |-> block,
              position |-> Len(e.blocks[block].arguments),
              type |-> type]]

mlirBlockGetFirstOperation(e, block) ==
    IF e.blocks[block].operations = <<>>
    THEN NULL
    ELSE Head(e.blocks[block].operations)

\* The engine classifies an operation as a terminator by its registered
\* traits; of the names in use, `func.return` is one.
IsTerminator(opName) == opName = "func.return"

\* The last operation of the block if it is a terminator, null otherwise.
mlirBlockGetTerminator(e, block) ==
    LET ops == e.blocks[block].operations
    IN IF ops = <<>>
       THEN NULL
       ELSE IF IsTerminator(e.operations[ops[Len(ops)]].name)
       THEN ops[Len(ops)]
       ELSE NULL

mlirBlockGetParentRegion(e, block) == e.blocks[block].region

mlirBlockGetParentOperation(e, block) ==
    IF e.blocks[block].region = NULL
    THEN NULL
    ELSE e.regions[e.blocks[block].region].operation

mlirBlockGetNextInRegion(e, block) ==
    LET r == e.blocks[block].region
        i == IF r = NULL THEN 0 ELSE IndexOf(e.regions[r].blocks, block)
    IN IF r = NULL \/ i = Len(e.regions[r].blocks)
       THEN NULL
       ELSE e.regions[r].blocks[i + 1]

mlirBlockAppendOwnedOperation(e, block, operation) ==
    [e EXCEPT !.blocks[block].operations = Append(@, operation),
              !.operations[operation].block = block]

mlirBlockInsertOwnedOperation(e, block, pos, operation) ==
    [e EXCEPT !.blocks[block].operations = InsertAt(@, pos, operation),
              !.operations[operation].block = block]

\* A null reference inserts at the front (after) or at the end (before).
mlirBlockInsertOwnedOperationAfter(e, block, reference, operation) ==
    [e EXCEPT !.blocks[block].operations =
                  InsertAt(@, IndexOf(@, reference), operation),
              !.operations[operation].block = block]

mlirBlockInsertOwnedOperationBefore(e, block, reference, operation) ==
    [e EXCEPT !.blocks[block].operations =
                  IF reference = NULL
                  THEN Append(@, operation)
                  ELSE InsertAt(@, IndexOf(@, reference) - 1, operation),
              !.operations[operation].block = block]

mlirBlockDetach(e, block) ==
    LET r == e.blocks[block].region
    IN [e EXCEPT !.regions[r].blocks = Remove(@, block),
                 !.blocks[block].region = NULL]

mlirBlockEqual(block, other) == block = other

(* ---------------------- engine: region primitives --------------------- *)

mlirRegionCreate(e) ==
    LET raw == Lowest(FreeRegions(e))
    IN [engine |-> [e EXCEPT !.regions[raw] =
                        [state |-> "live", blocks |-> <<>>,
                         operation |-> NULL]],
        raw |-> raw]

mlirRegionDestroy(e, region) ==
    Destroy(e, Closure(e, {}, {}, {region}))

mlirRegionAppendOwnedBlock(e, region, block) ==
    [e EXCEPT !.regions[region].blocks = Append(@, block),
              !.blocks[block].region = region]

mlirRegionGetFirstBlock(e, region) ==
    IF e.regions[region].blocks = <<>>
    THEN NULL
    ELSE Head(e.regions[region].blocks)

mlirRegionEqual(region, other) == region = other

(* -------------------- engine: operation primitives -------------------- *)

mlirOperationCreate(e, name, results, regs) ==
    LET raw == Lowest(FreeOperations(e))
    IN [engine |->
            [e EXCEPT !.operations[raw] =
                          [state |-> "live", name |-> name,
                           results |-> results, regions |-> regs,
                           block |-> NULL],
                      !.regions = [r \in RegionIds |->
                                     IF r \in Range(regs)
                                     THEN [@[r] EXCEPT !.operation = raw]
                                     ELSE @[r]]],
        raw |-> raw]

\* Erases the operation: unlinks it from its block, if any, and destroys it
\* with everything nested in it.
mlirOperationDestroy(e, operation) ==
    LET b == e.operations[operation].block
        unlinked == IF b = NULL
                    THEN e
                    ELSE [e EXCEPT !.blocks[b].operations =
                                       Remove(@, operation)]
    IN Destroy(unlinked, Closure(unlinked, {operation}, {}, {}))

mlirOperationGetName(e, operation) == e.operations[operation].name

mlirOperationGetBlock(e, operation) == e.operations[operation].block

mlirOperationGetNumResults(e, operation) ==
    Len(e.operations[operation].results)

mlirOperationGetResult(e, operation, pos) ==
    IF 0 <= pos /\ pos < Len(e.operations[operation].results)
    THEN [kind |-> "result", operation |-> operation, position |-> pos,
          type |-> e.operations[operation].results[pos + 1]]
    ELSE Undefined

mlirOperationGetNumRegions(e, operation) ==
    Len(e.operations[operation].regions)

mlirOperationGetRegion(e, operation, pos) ==
    IF 0 <= pos /\ pos < Len(e.operations[operation].regions)
    THEN e.operations[operation].regions[pos + 1]
    ELSE NULL

mlirOperationGetNextInBlock(e, operation) ==
    LET b == e.operations[operation].block
        i == IF b = NULL THEN 0 ELSE IndexOf(e.blocks[b].operations, operation)
    IN IF b = NULL \/ i = Len(e.blocks[b].operations)
       THEN NULL
       ELSE e.blocks[b].operations[i + 1]

mlirOperationEqual(operation, other) == operation = other

(* --------------------------- engine: printer -------------------------- *)

RECURSIVE PrintOperationChunks(_, _)
RECURSIVE PrintBlockBody(_, _)
RECURSIVE PrintRegionChunks(_, _)

PrintOperationChunks(e, operation) ==
    LET op == e.operations[operation]
    IN <<"\"", op.name, "\"()">>
       \o Flatten([i \in 1..Len(op.regions) |->
                     PrintRegionChunks(e, op.regions[i])])
       \o <<" : () -> (">>
       \o op.results
       \o <<")\n">>

PrintBlockBody(e, block) ==
    LET blk == e.blocks[block]
    IN <<"^bb(">>
       \o [i \in 1..Len(blk.arguments) |-> blk.arguments[i].type]
       \o <<"):\n">>
       \o Flatten([i \in 1..Len(blk.operations) |->
                     PrintOperationChunks(e, blk.operations[i])])

PrintRegionChunks(e, region) ==
    <<" ({\n">>
    \o Flatten([i \in 1..Len(e.regions[region].blocks) |->
                  PrintBlockBody(e, e.regions[region].blocks[i])])
    \o <<"})">>

\* The chunks the engine hands to the print callback, in order.
mlirOperationPrint(e, operation) == PrintOperationChunks(e, operation)

\* A block outside any operation has no textual form of its own.
mlirBlockPrint(e, block) ==
    IF mlirBlockGetParentOperation(e, block) = NULL
    THEN <<"<<UNLINKED BLOCK>>\n">>
    ELSE PrintBlockBody(e, block)

(* ------------------------- host: formatting --------------------------- *)

\* A formatter sink: what was written, and how many more writes it accepts
\* (a negative budget never fails, as a String).
StringFormatter == [buffer |-> <<>>, budget |-> -1]

OkUnit == [tag |-> "Ok"]
FmtError == [tag |-> "Err"]

Formatter_write(formatter, chunk) ==
    IF formatter.budget = 0
    THEN [formatter |-> formatter, result |-> FmtError]
    ELSE [formatter |-> [buffer |-> Append(formatter.buffer, chunk),
                         budget |-> IF formatter.budget < 0
                                    THEN formatter.budget
                                    ELSE formatter.budget - 1],
          result |-> OkUnit]

\* Writes a chunk unless an earlier write has failed.
print_callback(data, chunk) ==
    IF data.result # OkUnit
    THEN data
    ELSE Formatter_write(data.formatter, chunk)

RECURSIVE PrintAll(_, _)
PrintAll(data, chunks) ==
    IF chunks = <<>>
    THEN data
    ELSE PrintAll(print_callback(data, Head(chunks)), Tail(chunks))

\* Mutant: the result kept in `data` is never looked at.
BlockRef_fmt_Swallowed(e, self, formatter) ==
    LET data == PrintAll([formatter |-> formatter, result |-> OkUnit],
                         mlirBlockPrint(e, self))
    IN [data EXCEPT !.result = OkUnit]

BlockRef_fmt(e, self, formatter) ==
    LET data == PrintAll([formatter |-> formatter, result |-> OkUnit],
                         mlirBlockPrint(e, self))
    IN data

OperationRef_fmt(e, self, formatter) ==
    LET data == PrintAll([formatter |-> formatter, result |-> OkUnit],
                         mlirOperationPrint(e, self))
    IN data

\* ToString::to_string: formats into a String and panics on a format error.
Display_to_string(data) ==
    IF data.result = OkUnit THEN Concat(data.formatter.buffer) ELSE "<panic>"

BlockRef_to_string(e, self) == Display_to_string(BlockRef_fmt(e, self, StringFormatter))

OperationRef_to_string(e, self) ==
    Display_to_string(OperationRef_fmt(e, self, StringFormatter))

(* ----------------------------- host: errors --------------------------- *)

BlockArgumentPosition(text, position) ==
    [variant |-> "BlockArgumentPosition", text |-> text,
     position |-> position]

OperationResultPosition(text, position) ==
    [variant |-> "OperationResultPosition", text |-> text,
     position |-> position]

(* ------------------------ host: owning wrappers ----------------------- *)

HostInit ==
    [operations |-> [o \in OperationIds |-> 0],
     blocks |-> [b \in BlockIds |-> 0],
     regions |-> [r \in RegionIds |-> 0],
     allocations |-> 0]

OwnedOperations(h) == {o \in OperationIds : h.operations[o] > 0}
OwnedBlocks(h) == {b \in BlockIds : h.blocks[b] > 0}
OwnedRegions(h) == {r \in RegionIds : h.regions[r] > 0}

\* Iterator::collect into a Vec: a Vec with elements has a buffer on the
\* host's heap, an empty one has none.  `allocations` counts the buffers
\* that have not been released.
Vec_collect(h, xs) ==
    [host |-> [h EXCEPT !.allocations = @ + (IF xs = <<>> THEN 0 ELSE 1)],
     vec |-> xs]

\* xs.leak().as_mut_ptr(): the pointer to the elements; the buffer of the
\* Vec is leaked, so nothing releases it.
into_raw_array(xs) == xs

Block_from_raw(h, raw) == [h EXCEPT !.blocks[raw] = @ + 1]

\* forget(self): the wrapper goes away without running its destructor.
Block_into_raw(h, self) ==
    [host |-> [h EXCEPT !.blocks[self] = @ - 1], raw |-> self]

\* Mutant: the types are collected in reverse order.
Block_new_Reversed(e, h, arguments) ==
    LET n == Len(arguments)
        types == Vec_collect(h, [i \in 1..n |-> arguments[n + 1 - i][1]])
        locations == Vec_collect(types.host, [i \in 1..n |-> arguments[i][2]])
        created == mlirBlockCreate(e, n, into_raw_array(types.vec),
                                   into_raw_array(locations.vec))
    IN [engine |-> created.engine,
        host |-> Block_from_raw(locations.host, created.raw),
        ret |-> created.raw]

Block_new(e, h, arguments) ==
    LET n == Len(arguments)
        types == Vec_collect(h, [i \in 1..n |-> arguments[i][1]])
        locations == Vec_collect(types.host, [i \in 1..n |-> arguments[i][2]])
        created == mlirBlockCreate(e, n, into_raw_array(types.vec),
                                   into_raw_array(locations.vec))
    IN [engine |-> created.engine,
        host |-> Block_from_raw(locations.host, created.raw),
        ret |-> created.raw]

\* Mutant: the wrapper goes away without destroying the engine block.
Block_drop_Leaked(e, h, self) ==
    [engine |-> e,
     host |-> [h EXCEPT !.blocks[self] = @ - 1]]

Block_drop(e, h, self) ==
    [engine |-> mlirBlockDestroy(e, self),
     host |-> [h EXCEPT !.blocks[self] = @ - 1]]

Operation_from_raw(h, raw) == [h EXCEPT !.operations[raw] = @ + 1]

Operation_into_raw(h, self) ==
    [host |-> [h EXCEPT !.operations[self] = @ - 1], raw |-> self]

\* Mutant: the wrapper goes away without destroying the engine operation.
Operation_drop_Leaked(e, h, self) ==
    [engine |-> e,
     host |-> [h EXCEPT !.operations[self] = @ - 1]]

Operation_drop(e, h, self) ==
    [engine |-> mlirOperationDestroy(e, self),
     host |-> [h EXCEPT !.operations[self] = @ - 1]]

Region_from_raw(h, raw) == [h EXCEPT !.regions[raw] = @ + 1]

Region_into_raw(h, self) ==
    [host |-> [h EXCEPT !.regions[self] = @ - 1], raw |-> self]

Region_new(e, h) ==
    LET created == mlirRegionCreate(e)
    IN [engine |-> created.engine,
        host |-> Region_from_raw(h, created.raw),
        ret |-> created.raw]

Region_drop(e, h, self) ==
    [engine |-> mlirRegionDestroy(e, self),
     host |-> [h EXCEPT !.regions[self] = @ - 1]]

(* --------------------------- host: references ------------------------- *)

BlockRef_from_raw(raw) == raw

BlockRef_from_option_raw(raw) ==
    IF raw = NULL THEN None ELSE Some(BlockRef_from_raw(raw))

BlockRef_to_raw(self) == self

OperationRef_from_raw(raw) == raw

OperationRef_from_option_raw(raw) ==
    IF raw = NULL THEN None ELSE Some(OperationRef_from_raw(raw))

OperationRef_to_raw(self) == self

RegionRef_from_raw(raw) == raw

RegionRef_from_option_raw(raw) ==
    IF raw = NULL THEN None ELSE Some(RegionRef_from_raw(raw))

\* Deref for Block: the wrapper's field, a BlockRef<'static>.  The type is
\* Copy and carries no borrow of the wrapper, so `*block` is a reference
\* that the borrow checker lets live on after the wrapper is dropped.
Block_deref(self) == BlockRef_from_raw(self)

\* Deref for Operation: likewise an OperationRef<'static>.
Operation_deref(self) == OperationRef_from_raw(self)

(* ------------------------------ equality ------------------------------ *)

\* impl PartialEq for BlockRef
BlockRef_eq(self, other) == mlirBlockEqual(self, other)

\* Mutant: every two operation references compare equal.
OperationRef_eq_Always(self, other) == TRUE

\* impl PartialEq for OperationRef
OperationRef_eq(self, other) == mlirOperationEqual(self, other)

\* impl PartialEq for RegionRef
RegionRef_eq(self, other) == mlirRegionEqual(self, other)

\* impl PartialEq for Block: self.r#ref == other.r#ref
Block_eq(self, other) == BlockRef_eq(Block_deref(self), Block_deref(other))

\* impl PartialEq for Operation: self.r#ref == other.r#ref
Operation_eq(self, other) ==
    OperationRef_eq(Operation_deref(self), Operation_deref(other))

(* ------------------------------ BlockRef ------------------------------ *)

argument_count(e, self) == mlirBlockGetNumArguments(e, self)

\* Mutant: the bound check is off by one.
argument_OffByOne(e, self, position) ==
    IF position <= argument_count(e, self)
    THEN Ok(mlirBlockGetArgument(e, self, position))
    ELSE Err(BlockArgumentPosition(BlockRef_to_string(e, self), position))

argument(e, self, position) ==
    IF position < argument_count(e, self)
    THEN Ok(mlirBlockGetArgument(e, self, position))
    ELSE Err(BlockArgumentPosition(BlockRef_to_string(e, self), position))

\* Mutant: asks the engine for the terminator of the block.
first_operation_Terminator(e, self) ==
    LET operation == mlirBlockGetTerminator(e, self)
    IN IF operation = NULL
       THEN None
       ELSE Some(OperationRef_from_raw(operation))

first_operation(e, self) ==
    LET operation == mlirBlockGetFirstOperation(e, self)
    IN IF operation = NULL
       THEN None
       ELSE Some(OperationRef_from_raw(operation))

\* Mutant: answers with the first operation of the block.
terminator_First(e, self) ==
    OperationRef_from_option_raw(mlirBlockGetFirstOperation(e, self))

terminator(e, self) ==
    OperationRef_from_option_raw(mlirBlockGetTerminator(e, self))

parent_region(e, self) ==
    RegionRef_from_option_raw(mlirBlockGetParentRegion(e, self))

\* Mutant: the parent region is reported in place of the parent operation.
parent_operation_Region(e, self) ==
    OperationRef_from_option_raw(mlirBlockGetParentRegion(e, self))

parent_operation(e, self) ==
    OperationRef_from_option_raw(mlirBlockGetParentOperation(e, self))

\* Mutant: a value is returned but the block gets no argument.
add_argument_NotAdded(e, self, type, location) ==
    LET added == mlirBlockAddArgument(e, self, type, location)
    IN [engine |-> e, ret |-> added.raw]

add_argument(e, self, type, location) ==
    LET added == mlirBlockAddArgument(e, self, type, location)
    IN [engine |-> added.engine, ret |-> added.raw]

\* Mutant: the operation is forgotten but never handed to the block.
append_operation_NotAppended(e, h, self, operation) ==
    LET forgotten == Operation_into_raw(h, operation)
    IN [engine |-> e,
        host |-> forgotten.host,
        ret |-> OperationRef_from_raw(forgotten.raw)]

\* Mutant: the operation goes to the front of the block.
append_operation_Prepended(e, h, self, operation) ==
    LET forgotten == Operation_into_raw(h, operation)
    IN [engine |-> mlirBlockInsertOwnedOperation(e, self, 0, forgotten.raw),
        host |-> forgotten.host,
        ret |-> OperationRef_from_raw(forgotten.raw)]

append_operation(e, h, self, operation) ==
    LET forgotten == Operation_into_raw(h, operation)
    IN [engine |-> mlirBlockAppendOwnedOperation(e, self, forgotten.raw),
        host |-> forgotten.host,
        ret |-> OperationRef_from_raw(forgotten.raw)]

\* Mutant: the wrapper is dropped after the insertion instead of forgotten,
\* so its destructor destroys the operation.
insert_operation_Dropped(e, h, self, position, operation) ==
    LET inserted == mlirBlockInsertOwnedOperation(e, self, position, operation)
        dropped == Operation_drop(inserted, h, operation)
    IN [engine |-> dropped.engine,
        host |-> dropped.host,
        ret |-> OperationRef_from_raw(operation)]

\* Mutant: the position is ignored and the operation goes to the end.
insert_operation_Appended(e, h, self, position, operation) ==
    LET forgotten == Operation_into_raw(h, operation)
    IN [engine |-> mlirBlockAppendOwnedOperation(e, self, forgotten.raw),
        host |-> forgotten.host,
        ret |-> OperationRef_from_raw(forgotten.raw)]

insert_operation(e, h, self, position, operation) ==
    LET forgotten == Operation_into_raw(h, operation)
    IN [engine |-> mlirBlockInsertOwnedOperation(e, self, position,
                                                 forgotten.raw),
        host |-> forgotten.host,
        ret |-> OperationRef_from_raw(forgotten.raw)]

\* Mutant: inserts before the reference operation.
insert_operation_after_Before(e, h, self, one, other) ==
    LET forgotten == Operation_into_raw(h, other)
    IN [engine |-> mlirBlockInsertOwnedOperationBefore(
                       e, self, OperationRef_to_raw(one), forgotten.raw),
        host |-> forgotten.host,
        ret |-> OperationRef_from_raw(forgotten.raw)]

insert_operation_after(e, h, self, one, other) ==
    LET forgotten == Operation_into_raw(h, other)
    IN [engine |-> mlirBlockInsertOwnedOperationAfter(
                       e, self, OperationRef_to_raw(one), forgotten.raw),
        host |-> forgotten.host,
        ret |-> OperationRef_from_raw(forgotten.raw)]

\* Mutant: inserts after the reference operation.
insert_operation_before_After(e, h, self, one, other) ==
    LET forgotten == Operation_into_raw(h, other)
    IN [engine |-> mlirBlockInsertOwnedOperationAfter(
                       e, self, OperationRef_to_raw(one), forgotten.raw),
        host |-> forgotten.host,
        ret |-> OperationRef_from_raw(forgotten.raw)]

insert_operation_before(e, h, self, one, other) ==
    LET forgotten == Operation_into_raw(h, other)
    IN [engine |-> mlirBlockInsertOwnedOperationBefore(
                       e, self, OperationRef_to_raw(one), forgotten.raw),
        host |-> forgotten.host,
        ret |-> OperationRef_from_raw(forgotten.raw)]

\* Mutant: detaches and takes ownership without looking at the parent.
detach_Unchecked(e, h, self) ==
    [engine |-> IF mlirBlockGetParentRegion(e, self) = NULL
                THEN e
                ELSE mlirBlockDetach(e, self),
     host |-> Block_from_raw(h, self),
     ret |-> Some(self)]

\* Mutant: takes ownership without detaching the block from its region.
detach_NotDetached(e, h, self) ==
    IF parent_region(e, self) # None
    THEN [engine |-> e,
          host |-> Block_from_raw(h, self),
          ret |-> Some(self)]
    ELSE [engine |-> e, host |-> h, ret |-> None]

detach(e, h, self) ==
    IF parent_region(e, self) # None
    THEN [engine |-> mlirBlockDetach(e, self),
          host |-> Block_from_raw(h, self),
          ret |-> Some(self)]
    ELSE [engine |-> e, host |-> h, ret |-> None]

\* Mutant: the engine's answer is wrapped without the null check.
next_in_region_Unchecked(e, self) ==
    Some(BlockRef_from_raw(mlirBlockGetNextInRegion(e, self)))

next_in_region(e, self) ==
    BlockRef_from_option_raw(mlirBlockGetNextInRegion(e, self))

(* ---------------------------- OperationRef ---------------------------- *)

name(e, self) == mlirOperationGetName(e, self)

block(e, self) == BlockRef_from_option_raw(mlirOperationGetBlock(e, self))

result_count(e, self) == mlirOperationGetNumResults(e, self)

\* Mutant: the bound check is off by one.
result_OffByOne(e, self, position) ==
    IF position <= result_count(e, self)
    THEN Ok(mlirOperationGetResult(e, self, position))
    ELSE Err(OperationResultPosition(OperationRef_to_string(e, self),
                                     position))

result(e, self, position) ==
    IF position < result_count(e, self)
    THEN Ok(mlirOperationGetResult(e, self, position))
    ELSE Err(OperationResultPosition(OperationRef_to_string(e, self),
                                     position))

\* Mutant: the number of results is reported as the number of regions.
region_count_Results(e, self) == mlirOperationGetNumResults(e, self)

region_count(e, self) == mlirOperationGetNumRegions(e, self)

\* Mutant: the bound check is off by one.
region_OffByOne(e, self, index) ==
    IF index <= region_count(e, self)
    THEN Some(RegionRef_from_raw(mlirOperationGetRegion(e, self, index)))
    ELSE None

region(e, self, index) ==
    IF index < region_count(e, self)
    THEN Some(RegionRef_from_raw(mlirOperationGetRegion(e, self, index)))
    ELSE None

next_in_block(e, self) ==
    LET operation == mlirOperationGetNextInBlock(e, self)
    IN IF operation = NULL
       THEN None
       ELSE Some(OperationRef_from_raw(operation))

(* ----------------------- engine: deep clone --------------------------- *)

Rank(S, x) == Cardinality({y \in S : y <= x})

Nth(S, k) == CHOOSE x \in S : Rank(S, x) = k

\* The fresh address of the copy of x, for a set `old` of copied objects.
Fresh(old, free, x) == Nth(free, Rank(old, x))

CanClone(e, operation) ==
    LET c == Closure(e, {operation}, {}, {})
    IN /\ Cardinality(c.operations) <= Cardinality(FreeOperations(e))
       /\ Cardinality(c.blocks) <= Cardinality(FreeBlocks(e))
       /\ Cardinality(c.regions) <= Cardinality(FreeRegions(e))

\* A deep copy of the operation and of everything nested in it; the copy of
\* the operation itself is in no block.
mlirOperationClone(e, operation) ==
    LET c == Closure(e, {operation}, {}, {})
        fo(x) == Fresh(c.operations, FreeOperations(e), x)
        fb(x) == Fresh(c.blocks, FreeBlocks(e), x)
        fr(x) == Fresh(c.regions, FreeRegions(e), x)
        copyOf(S, f(_), y) == CHOOSE x \in S : f(x) = y
        newOps == {fo(x) : x \in c.operations}
        newBlocks == {fb(x) : x \in c.blocks}
        newRegions == {fr(x) : x \in c.regions}
        cloneOp(x) ==
            [state |-> "live",
             name |-> e.operations[x].name,
             results |-> e.operations[x].results,
             regions |-> [i \in 1..Len(e.operations[x].regions) |->
                            fr(e.operations[x].regions[i])],
             block |-> IF x = operation THEN NULL
                       ELSE fb(e.operations[x].block)]
        cloneBlock(x) ==
            [state |-> "live",
             arguments |-> e.blocks[x].arguments,
             operations |-> [i \in 1..Len(e.blocks[x].operations) |->
                               fo(e.blocks[x].operations[i])],
             region |-> fr(e.blocks[x].region)]
        cloneRegion(x) ==
            [state |-> "live",
             blocks |-> [i \in 1..Len(e.regions[x].blocks) |->
                           fb(e.regions[x].blocks[i])],
             operation |-> fo(e.regions[x].operation)]
    IN [engine |->
            [operations |-> [o \in OperationIds |->
                               IF o \in newOps
                               THEN cloneOp(copyOf(c.operations, fo, o))
                               ELSE e.operations[o]],
             blocks |-> [b \in BlockIds |->
                               IF b \in newBlocks
                               THEN cloneBlock(copyOf(c.blocks, fb, b))
                               ELSE e.blocks[b]],
             regions |-> [r \in RegionIds |->
                               IF r \in newRegions
                               THEN cloneRegion(copyOf(c.regions, fr, r))
                               ELSE e.regions[r]]],
        raw |-> fo(operation)]

\* Mutant: a second owning wrapper for the same engine operation.
to_owned_Shared(e, h, self) ==
    [engine |-> e,
     host |-> Operation_from_raw(h, self),
     ret |-> self]

to_owned(e, h, self) ==
    LET cloned == mlirOperationClone(e, self)
    IN [engine |-> cloned.engine,
        host |-> Operation_from_raw(h, cloned.raw),
        ret |-> cloned.raw]

(* ------------------------- Region and Builder ------------------------- *)

Region_append_block(e, h, self, blk) ==
    LET forgotten == Block_into_raw(h, blk)
    IN [engine |-> mlirRegionAppendOwnedBlock(e, self, forgotten.raw),
        host |-> forgotten.host,
        ret |-> BlockRef_from_raw(forgotten.raw)]

RECURSIVE ForgetRegions(_, _)
ForgetRegions(h, regs) ==
    IF regs = <<>>
    THEN h
    ELSE ForgetRegions(Region_into_raw(h, Head(regs)).host, Tail(regs))

\* Builder::new(name, location).add_results(results).add_regions(regs).build()
Builder_build(e, h, opName, results, regs) ==
    LET created == mlirOperationCreate(e, opName, results, regs)
    IN [engine |-> created.engine,
        host |-> Operation_from_raw(ForgetRegions(h, regs), created.raw),
        ret |-> created.raw]

(* ----------------------- register_all_passes -------------------------- *)

Threads == 1..MaxThreads

\* static ONCE: Once = Once::new(); no registration has run, and no thread
\* is inside register_all_passes.  `calls` counts the calls that returned.
PassesInit ==
    [once |-> "incomplete",
     registered |-> 0,
     pc |-> [t \in Threads |-> "idle"],
     calls |-> [t \in Threads |-> 0]]

\* Mutant: the closure runs whatever the state of the Once.
call_once_Unguarded(once) == "run"

\* Once::call_once: what the calling thread does in each state of the Once:
\* it runs the closure, waits for the thread that runs it, or returns.
call_once(once) ==
    IF once = "complete" THEN "return"
    ELSE IF once = "incomplete" THEN "run"
    ELSE "wait"

mlirRegisterAllPasses(p) == [p EXCEPT !.registered = @ + 1]

\* A thread calls register_all_passes() and reaches ONCE.call_once(..).
register_all_passes(p, t) ==
    LET todo == call_once(p.once)
    IN IF todo = "return"
       THEN [p EXCEPT !.calls[t] = @ + 1]
       ELSE IF todo = "run"
       THEN [p EXCEPT !.once = "running", !.pc[t] = "closure"]
       ELSE [p EXCEPT !.pc[t] = "waiting"]

(* ------------------------------ actions ------------------------------- *)

Call(c, self, args, ret) ==
    [call |-> c, self |-> self, args |-> args, ret |-> ret]

\* The objects of state e that state f no longer has.
Gone(e, f) ==
    [operations |-> LiveOperations(e) \ LiveOperations(f),
     blocks |-> LiveBlocks(e) \ LiveBlocks(f),
     regions |-> LiveRegions(e) \ LiveRegions(f)]

\* The call that has just returned goes on record, with the objects the
\* engine destroyed during it; what is on record about a region or a block
\* ends with the object.
Returned(c, self, args, ret) ==
    /\ last' = Call(c, self, args, ret)
    /\ destroyed' = Gone(engine, engine')
    /\ appended' =
           [r \in RegionIds |->
              LET b == IF c = "Region::append_block" /\ r = self
                       THEN args[1]
                       ELSE appended[r]
              IN IF r \in LiveRegions(engine') /\ b \in LiveBlocks(engine')
                 THEN b
                 ELSE NULL]

\* A call of the IR API: the references the client holds are variables of
\* its own, which no call touches, and so is the registration of passes.
Record(c, self, args, ret) ==
    /\ Returned(c, self, args, ret)
    /\ UNCHANGED <<refs, passes>>

Init ==
    /\ engine = EngineInit
    /\ host = HostInit
    /\ last = Call("init", NULL, <<>>, None)
    /\ appended = [r \in RegionIds |-> NULL]
    /\ refs = {}
    /\ passes = PassesInit
    /\ destroyed = Gone(EngineInit, EngineInit)

ArgumentLists == SeqsUpTo(Types \X Locations, MaxArguments)

ResultLists == SeqsUpTo(Types, MaxResults)

DistinctSeqs(S) ==
    {s \in SeqsUpTo(S, Cardinality(S)) :
        \A i, j \in 1..Len(s) : i # j => s[i] # s[j]}

\* let block = Block::new(arguments);
BlockNew(argumentLists, room) ==
    \E arguments \in argumentLists :
        /\ FreeBlocks(engine) # {}
        /\ room
        /\ LET r == Block_new(engine, host, arguments)
           IN /\ engine' = r.engine
              /\ host' = r.host
              /\ Record("Block::new", r.ret, <<arguments>>, Some(r.ret))

\* drop(block);
BlockDrop ==
    \E self \in OwnedBlocks(host) :
        LET r == Block_drop(engine, host, self)
        IN /\ engine' = r.engine
           /\ host' = r.host
           /\ Record("Block::drop", self, <<>>, None)

\* let region = Region::new();
RegionNew(room) ==
    /\ FreeRegions(engine) # {}
    /\ room
    /\ LET r == Region_new(engine, host)
       IN /\ engine' = r.engine
          /\ host' = r.host
          /\ Record("Region::new", r.ret, <<>>, Some(r.ret))

\* drop(region);
RegionDrop ==
    \E self \in OwnedRegions(host) :
        LET r == Region_drop(engine, host, self)
        IN /\ engine' = r.engine
           /\ host' = r.host
           /\ Record("Region::drop", self, <<>>, None)

\* region.append_block(block): the region does not lie inside the block.
RegionAppendBlock ==
    \E self \in LiveRegions(engine), blk \in OwnedBlocks(host) :
        /\ self \notin Closure(engine, {}, {blk}, {}).regions
        /\ LET r == Region_append_block(engine, host, self, blk)
           IN /\ engine' = r.engine
              /\ host' = r.host
              /\ Record("Region::append_block", self, <<blk>>,
                              Some(r.ret))

\* let operation = Builder::new(..).add_results(..).add_regions(..).build();
BuilderBuild(names, resultLists, room) ==
    \E opName \in names, results \in resultLists,
       regs \in DistinctSeqs(OwnedRegions(host)) :
        /\ FreeOperations(engine) # {}
        /\ room
        /\ LET r == Builder_build(engine, host, opName, results, regs)
           IN /\ engine' = r.engine
              /\ host' = r.host
              /\ Record("Builder::build", r.ret,
                              <<opName, results, regs>>, Some(r.ret))

\* drop(operation);
OperationDrop ==
    \E self \in OwnedOperations(host) :
        LET r == Operation_drop(engine, host, self)
        IN /\ engine' = r.engine
           /\ host' = r.host
           /\ Record("Operation::drop", self, <<>>, None)

\* operation.to_owned()
ToOwned(room) ==
    \E self \in LiveOperations(engine) :
        /\ CanClone(engine, self)
        /\ room
        /\ LET r == to_owned(engine, host, self)
           IN /\ engine' = r.engine
              /\ host' = r.host
              /\ Record("to_owned", self, <<>>, Some(r.ret))

\* block.argument(position)
Argument ==
    \E self \in LiveBlocks(engine), position \in 0..(MaxArguments + 1) :
        /\ UNCHANGED <<engine, host>>
        /\ Record("argument", self, <<position>>, argument(engine, self, position))

\* block.add_argument(type, location)
AddArgument ==
    \E self \in LiveBlocks(engine), type \in Types, location \in Locations :
        /\ argument_count(engine, self) < MaxArguments
        /\ LET r == add_argument(engine, self, type, location)
           IN /\ engine' = r.engine
              /\ Record("add_argument", self, <<type, location>>,
                              Some(r.ret))
              /\ UNCHANGED host

\* An owned operation can go into a block that does not lie inside it.
Attachable(self, operation) ==
    /\ self \in LiveBlocks(engine)
    /\ operation \in OwnedOperations(host)
    /\ self \notin Closure(engine, {operation}, {}, {}).blocks

\* block.append_operation(operation)
AppendOperation ==
    \E self \in BlockIds, operation \in OperationIds :
        /\ Attachable(self, operation)
        /\ LET r == append_operation(engine, host, self, operation)
           IN /\ engine' = r.engine
              /\ host' = r.host
              /\ Record("append_operation", self, <<operation>>,
                              Some(r.ret))

\* block.insert_operation(position, operation), position within the block
InsertOperation ==
    \E self \in BlockIds, operation \in OperationIds :
        /\ Attachable(self, operation)
        /\ \E position \in 0..Len(engine.blocks[self].operations) :
            LET r == insert_operation(engine, host, self, position, operation)
            IN /\ engine' = r.engine
               /\ host' = r.host
               /\ Record("insert_operation", self,
                               <<position, operation>>, Some(r.ret))

\* block.insert_operation_after(one, other), `one` an operation of the block
InsertOperationAfter ==
    \E self \in BlockIds, other \in OperationIds :
        /\ Attachable(self, other)
        /\ \E one \in Range(engine.blocks[self].operations) :
            LET r == insert_operation_after(engine, host, self, one, other)
            IN /\ engine' = r.engine
               /\ host' = r.host
               /\ Record("insert_operation_after", self,
                               <<one, other>>, Some(r.ret))

\* block.insert_operation_before(one, other), `one` an operation of the block
InsertOperationBefore ==
    \E self \in BlockIds, other \in OperationIds :
        /\ Attachable(self, other)
        /\ \E one \in Range(engine.blocks[self].operations) :
            LET r == insert_operation_before(engine, host, self, one, other)
            IN /\ engine' = r.engine
               /\ host' = r.host
               /\ Record("insert_operation_before", self,
                               <<one, other>>, Some(r.ret))

\* unsafe { block.detach() }
Detach ==
    \E self \in LiveBlocks(engine) :
        LET r == detach(engine, host, self)
        IN /\ engine' = r.engine
           /\ host' = r.host
           /\ Record("detach", self, <<>>, r.ret)

\* operation.result(position)
Result ==
    \E self \in LiveOperations(engine), position \in 0..(MaxResults + 1) :
        /\ UNCHANGED <<engine, host>>
        /\ Record("result", self, <<position>>, result(engine, self, position))

\* operation.region(index)
Region ==
    \E self \in LiveOperations(engine), index \in 0..(MaxRegions + 1) :
        /\ UNCHANGED <<engine, host>>
        /\ Record("region", self, <<index>>, region(engine, self, index))

\* The calls that put an owned operation into a block.
Attaching ==
    {"append_operation", "insert_operation", "insert_operation_after",
     "insert_operation_before"}

\* A reference held in a variable of the client.
Reference(kind, raw) == [kind |-> kind, raw |-> raw]

\* The reference points to an object the engine has not destroyed.
Valid(e, ref) ==
    IF ref.kind = "block"
    THEN ref.raw \in LiveBlocks(e)
    ELSE ref.raw \in LiveOperations(e)

\* let reference = *block;
BlockDeref ==
    \E self \in OwnedBlocks(host) :
        /\ UNCHANGED <<engine, host, passes>>
        /\ refs' = refs \cup {Reference("block", Block_deref(self))}
        /\ Returned("Block::deref", self, <<>>, Some(Block_deref(self)))

\* let reference = *operation;
OperationDeref ==
    \E self \in OwnedOperations(host) :
        /\ UNCHANGED <<engine, host, passes>>
        /\ refs' = refs \cup {Reference("operation", Operation_deref(self))}
        /\ Returned("Operation::deref", self, <<>>,
                    Some(Operation_deref(self)))

\* The calls that return an OperationRef<'c> or a BlockRef whose lifetime
\* is not the borrow of an owning wrapper (the insertions return a
\* reference with the lifetime of `&self`).
ReturnsOperationRef == {"append_operation"}

ReturnsBlockRef == {"Region::append_block"}

\* let reference = <the reference the call has just returned>;
KeepReference ==
    /\ last.call \in ReturnsOperationRef \cup ReturnsBlockRef
    /\ UNCHANGED <<engine, host, passes>>
    /\ refs' = refs \cup
           {Reference(IF last.call \in ReturnsBlockRef
                      THEN "block" ELSE "operation",
                      last.ret.value)}
    /\ Returned("let", last.self, <<>>, last.ret)

\* What a read through a reference to a destroyed object may yield: any
\* count, or the end of the process.
Crashed == [tag |-> "Crashed"]
DanglingReads == {Some(n) : n \in 0..MaxArguments} \cup {Crashed}

\* reference.argument_count() on a held BlockRef, or
\* reference.result_count() on a held OperationRef.  On a destroyed object
\* the read is of freed memory: undefined behaviour.
UseReference ==
    \E ref \in refs :
        /\ UNCHANGED <<engine, host, passes, refs>>
        /\ \E ret \in IF Valid(engine, ref)
                        THEN {Some(IF ref.kind = "block"
                                   THEN argument_count(engine, ref.raw)
                                   ELSE result_count(engine, ref.raw))}
                        ELSE DanglingReads :
               Returned(IF ref.kind = "block"
                        THEN "argument_count" ELSE "result_count",
                        ref.raw, <<>>, ret)

\* thread t: register_all_passes();
RegisterAllPasses ==
    \E t \in Threads :
        /\ passes.pc[t] = "idle"
        /\ passes.calls[t] < MaxCalls
        /\ passes' = register_all_passes(passes, t)
        /\ UNCHANGED <<engine, host, last, appended, refs, destroyed>>

\* thread t, inside the closure: unsafe { mlirRegisterAllPasses() }
RunRegistration ==
    \E t \in Threads :
        /\ passes.pc[t] = "closure"
        /\ passes' = [mlirRegisterAllPasses(passes) EXCEPT !.pc[t] = "registered"]
        /\ UNCHANGED <<engine, host, last, appended, refs, destroyed>>

\* thread t: the closure has returned; call_once marks the Once complete and
\* returns.
CompleteOnce ==
    \E t \in Threads :
        /\ passes.pc[t] = "registered"
        /\ passes' = [passes EXCEPT !.once = "complete", !.pc[t] = "idle",
                                    !.calls[t] = @ + 1]
        /\ UNCHANGED <<engine, host, last, appended, refs, destroyed>>

\* thread t, blocked in call_once, is woken once the Once is complete.
WakeWaiter ==
    \E t \in Threads :
        /\ passes.pc[t] = "waiting"
        /\ passes.once = "complete"
        /\ passes' = [passes EXCEPT !.pc[t] = "idle", !.calls[t] = @ + 1]
        /\ UNCHANGED <<engine, host, last, appended, refs, destroyed>>

\* A scenario may work on one object of a kind at a time.
OneBlock == LiveBlocks(engine) = {}
OneRegion == LiveRegions(engine) = {}
OneOperation == LiveOperations(engine) = {}
OneOwnedOperation == OwnedOperations(host) = {}
OneOwnedBlock == OwnedBlocks(host) = {}
TwoBlocks == Cardinality(LiveBlocks(engine)) < 2
TwoOperations == Cardinality(LiveOperations(engine)) < 2

\* Operations in blocks: blocks without arguments and operations without
\* results, as Block::new(&[]) and Builder::new("foo", location).build()
\* make them.
Next ==
    \/ BlockNew({<<>>}, TRUE)
    \/ BlockDrop
    \/ BuilderBuild({"foo"}, {<<>>}, TRUE)
    \/ OperationDrop
    \/ ToOwned(TRUE)
    \/ AppendOperation
    \/ InsertOperation
    \/ InsertOperationAfter
    \/ InsertOperationBefore

Spec == Init /\ [][Next]_vars

\* Blocks in one region at a time, and the region in an operation.
NextRegions ==
    \/ BlockNew({<<>>}, TRUE)
    \/ BlockDrop
    \/ RegionNew(OneRegion)
    \/ RegionDrop
    \/ RegionAppendBlock
    \/ BuilderBuild({"foo"}, {<<>>}, OneOperation)
    \/ OperationDrop
    \/ AppendOperation
    \/ Detach

SpecRegions == Init /\ [][NextRegions]_vars

\* Parent links of one block, one region and an operation with its clone.
NextParents ==
    \/ BlockNew({<<>>}, OneBlock)
    \/ BlockDrop
    \/ RegionNew(OneRegion)
    \/ RegionDrop
    \/ RegionAppendBlock
    \/ BuilderBuild({"foo"}, {<<>>}, OneOperation)
    \/ OperationDrop
    \/ ToOwned(OneOwnedOperation)
    \/ AppendOperation
    \/ Detach

SpecParents == Init /\ [][NextParents]_vars

\* Block arguments.
NextArguments ==
    \/ BlockNew(ArgumentLists, OneBlock)
    \/ BlockDrop
    \/ AddArgument
    \/ Argument
    \/ RegionNew(OneRegion)
    \/ RegionAppendBlock
    \/ BuilderBuild({"foo"}, {<<>>}, OneOperation)
    \/ OperationDrop
    \/ AppendOperation

SpecArguments == Init /\ [][NextArguments]_vars

\* Operation results and regions.
NextResults ==
    \/ BuilderBuild(Names, ResultLists, OneOperation)
    \/ OperationDrop
    \/ RegionNew(TRUE)
    \/ RegionDrop
    \/ Result
    \/ Region
    \/ BlockNew({<<>>}, OneBlock)
    \/ AppendOperation

SpecResults == Init /\ [][NextResults]_vars

\* The safe API with references kept in variables: nothing here is marked
\* unsafe.
NextReferences ==
    \/ BlockNew({<<>>}, OneBlock)
    \/ BlockDrop
    \/ BuilderBuild({"foo"}, {<<>>}, OneOperation)
    \/ OperationDrop
    \/ AppendOperation
    \/ BlockDeref
    \/ OperationDeref
    \/ KeepReference
    \/ UseReference

SpecReferences == Init /\ [][NextReferences]_vars

\* References kept across detach and across the drop of the detached block.
NextDetached ==
    \/ BlockNew({<<>>}, OneBlock)
    \/ BlockDrop
    \/ RegionNew(OneRegion)
    \/ RegionDrop
    \/ RegionAppendBlock
    \/ BuilderBuild({"foo"}, {<<>>}, OneOperation)
    \/ AppendOperation
    \/ Detach
    \/ KeepReference
    \/ UseReference

SpecDetached == Init /\ [][NextDetached]_vars

\* Operations of both names in one block at a time.
NextTerminator ==
    \/ BlockNew({<<>>}, OneBlock)
    \/ BlockDrop
    \/ BuilderBuild(Names, {<<>>}, TRUE)
    \/ OperationDrop
    \/ AppendOperation
    \/ InsertOperation

SpecTerminator == Init /\ [][NextTerminator]_vars

\* Threads of one process registering the passes.
NextPasses ==
    \/ RegisterAllPasses
    \/ RunRegistration
    \/ CompleteOnce
    \/ WakeWaiter

SpecPasses == Init /\ [][NextPasses]_vars

(* ============================== claims ================================ *)

\* The textual form of a block and of an operation, as the engine prints it.
BlockText(e, b) == Concat(mlirBlockPrint(e, b))
OperationText(e, o) == Concat(mlirOperationPrint(e, o))

ArgumentCalled == last.call = "argument"

\* What argument(position) has to return on the block as it is.
ArgumentExpected(e, b, p) ==
    IF p < Len(e.blocks[b].arguments)
    THEN Ok([kind |-> "argument", block |-> b, position |-> p,
             type |-> e.blocks[b].arguments[p + 1].type])
    ELSE Err([variant |-> "BlockArgumentPosition", text |-> BlockText(e, b),
              position |-> p])

\* C1: argument(p) returns Ok with the argument at position p when
\* p < argument_count(), and Err(BlockArgumentPosition(text of the block, p))
\* when p >= argument_count(); it never panics, and the call leaves the
\* block, and the rest of the graph and of the host's wrappers, unchanged.
C1_ArgumentOkOrErr ==
    /\ [](ArgumentCalled =>
            last.ret = ArgumentExpected(engine, last.self, last.args[1]))
    /\ [][last'.call = "argument" => UNCHANGED <<engine, host>>]_vars

\* An out-of-range position on a block that has arguments and lies in an
\* operation, so that its textual form is its own.
C1_Witness ==
    /\ ArgumentCalled
    /\ last.ret.tag = "Err"
    /\ last.args[1] = Len(engine.blocks[last.self].arguments)
    /\ last.args[1] > 0
    /\ mlirBlockGetParentOperation(engine, last.self) # NULL

ResultCalled == last.call = "result"

ResultExpected(e, o, p) ==
    IF p < Len(e.operations[o].results)
    THEN Ok([kind |-> "result", operation |-> o, position |-> p,
             type |-> e.operations[o].results[p + 1]])
    ELSE Err([variant |-> "OperationResultPosition",
              text |-> OperationText(e, o), position |-> p])

\* C2: result(p) returns Ok with the result at position p when
\* p < result_count(), and Err(OperationResultPosition(text of the
\* operation, p)) when p >= result_count(); it never panics and leaves the
\* operation unchanged.
C2_ResultOkOrErr ==
    /\ [](ResultCalled =>
            last.ret = ResultExpected(engine, last.self, last.args[1]))
    /\ [][last'.call = "result" => UNCHANGED <<engine, host>>]_vars

\* The first position past the results of an operation that has results.
C2_Witness ==
    /\ ResultCalled
    /\ last.ret.tag = "Err"
    /\ last.args[1] = Len(engine.operations[last.self].results)
    /\ last.args[1] > 0

RegionCalled == last.call = "region"

\* C3: region(i) returns Some(region at index i) when i < region_count() and
\* None when i >= region_count(); an operation built with no regions returns
\* None for every index.
C3_RegionSomeOrNone ==
    RegionCalled =>
        LET regs == engine.operations[last.self].regions
            i == last.args[1]
        IN /\ i < Len(regs) => last.ret = Some(regs[i + 1])
           /\ i >= Len(regs) => last.ret = None
           /\ regs = <<>> => last.ret = None

\* The first index past the regions of an operation that has regions.
C3_Witness ==
    /\ RegionCalled
    /\ last.ret = None
    /\ last.args[1] = Len(engine.operations[last.self].regions)
    /\ last.args[1] > 0

BlockNewCalled == last.call = "Block::new"

\* C4: a block created by Block::new from n (type, location) pairs has
\* argument_count() = n, argument(i) succeeds for 0 <= i < n with the i-th
\* type of the list, argument(i) fails for i >= n, and the block has no
\* operations.
C4_BlockNewArguments ==
    BlockNewCalled =>
        LET b == last.ret.value
            arguments == last.args[1]
            n == Len(arguments)
        IN /\ argument_count(engine, b) = n
           /\ \A i \in 0..(MaxArguments + 1) :
                LET a == argument(engine, b, i)
                IN IF i < n
                   THEN a.tag = "Ok" /\ a.value.kind = "argument"
                        /\ a.value.type = arguments[i + 1][1]
                   ELSE a.tag = "Err"
           /\ first_operation(engine, b) = None

\* A block made from two arguments of different types.
C4_Witness ==
    /\ BlockNewCalled
    /\ Len(last.args[1]) = 2
    /\ last.args[1][1][1] # last.args[1][2][1]

\* A block that lies in no region's sequence, and an operation that lies in
\* no block's sequence.
InNoRegion(b) == \A r \in LiveRegions(engine) : b \notin Range(engine.regions[r].blocks)
InNoBlock(o) == \A b \in LiveBlocks(engine) : o \notin Range(engine.blocks[b].operations)

\* C5: a block that is not attached to a region (freshly created, or returned
\* by detach) returns None from parent_region() and parent_operation(); an
\* operation that is not attached to a block (freshly built, or produced by
\* to_owned) returns None from block() and next_in_block().
C5_UnattachedHasNoParent ==
    /\ \A b \in LiveBlocks(engine) :
           (b \in OwnedBlocks(host) \/ InNoRegion(b)) =>
               /\ parent_region(engine, b) = None
               /\ parent_operation(engine, b) = None
    /\ \A o \in LiveOperations(engine) :
           (o \in OwnedOperations(host) \/ InNoBlock(o)) =>
               /\ block(engine, o) = None
               /\ next_in_block(engine, o) = None
    /\ last.call \in {"Block::new", "Builder::build", "to_owned"} =>
           last.ret.value \in
               IF last.call = "Block::new"
               THEN OwnedBlocks(host) ELSE OwnedOperations(host)
    /\ (last.call = "detach" /\ last.ret # None) =>
           last.ret.value \in OwnedBlocks(host)

\* A block that detach has just returned, while the region it was taken
\* from lives on inside an operation.
C5_Witness ==
    /\ last.call = "detach"
    /\ last.ret = Some(last.self)
    /\ \E r \in LiveRegions(engine) : engine.regions[r].operation # NULL
    /\ \E o \in OwnedOperations(host) : TRUE

\* The operations of a block as a walk finds them: from first_operation(),
\* following next_in_block() until None.
RECURSIVE WalkFrom(_, _, _)
WalkFrom(e, step, fuel) ==
    IF step = None \/ fuel = 0
    THEN <<>>
    ELSE <<step.value>>
         \o WalkFrom(e, next_in_block(e, step.value), fuel - 1)

Walk(e, b) == WalkFrom(e, first_operation(e, b), MaxOperations + 1)

\* C6: after block.append_operation(op) returns r, r.block() is the block,
\* and if the block was empty before the call, first_operation() is r.
C6_AppendOperation ==
    [][last'.call = "append_operation" =>
        LET b == last'.self
            r == last'.ret.value
        IN /\ block(engine', r) = Some(b)
           /\ first_operation(engine, b) = None =>
                  first_operation(engine', b) = Some(r)]_vars

\* An append to an empty block.
C6_Witness ==
    /\ last.call = "append_operation"
    /\ Walk(engine, last.self) = <<last.ret.value>>

\* C7: after insert_operation_after(a, b) returns rb on a block containing
\* a: a.next_in_block() is rb, rb.next_in_block() is a's former successor,
\* rb.block() is this block, and the operations that were in the block keep
\* their relative order (first_operation() is unchanged).
C7_InsertOperationAfter ==
    [][last'.call = "insert_operation_after" =>
        LET blk == last'.self
            a == last'.args[1]
            rb == last'.ret.value
        IN /\ next_in_block(engine', a) = Some(rb)
           /\ next_in_block(engine', rb) = next_in_block(engine, a)
           /\ block(engine', rb) = Some(blk)
           /\ Remove(Walk(engine', blk), rb) = Walk(engine, blk)
           /\ Len(Walk(engine', blk)) = Len(Walk(engine, blk)) + 1
           /\ first_operation(engine', blk) = first_operation(engine, blk)]_vars

\* An insertion after an operation that had a successor: the inserted
\* operation now stands between the two.
C7_Witness ==
    /\ last.call = "insert_operation_after"
    /\ next_in_block(engine, last.args[1]) = Some(last.ret.value)
    /\ next_in_block(engine, last.ret.value) # None

\* C8: after insert_operation_before(a, b) returns rb on a block containing
\* a: rb.next_in_block() is a; if a was first, first_operation() is rb,
\* otherwise a's former predecessor is followed by rb; the operations that
\* were in the block keep their relative order.
C8_InsertOperationBefore ==
    [][last'.call = "insert_operation_before" =>
        LET blk == last'.self
            a == last'.args[1]
            rb == last'.ret.value
            before == Walk(engine, blk)
        IN /\ next_in_block(engine', rb) = Some(a)
           /\ first_operation(engine, blk) = Some(a) =>
                  first_operation(engine', blk) = Some(rb)
           /\ \A p \in Range(before) :
                  next_in_block(engine, p) = Some(a) =>
                      next_in_block(engine', p) = Some(rb)
           /\ Remove(Walk(engine', blk), rb) = before
           /\ Len(Walk(engine', blk)) = Len(before) + 1]_vars

\* An insertion before an operation that has a predecessor.
C8_Witness ==
    /\ last.call = "insert_operation_before"
    /\ first_operation(engine, last.self) # Some(last.ret.value)
    /\ next_in_block(engine, last.ret.value) = Some(last.args[1])

\* The blocks of a region as a walk finds them: from the region's first
\* block, following next_in_region() until None.
RECURSIVE RegionWalkFrom(_, _, _)
RegionWalkFrom(e, step, fuel) ==
    IF step = None \/ fuel = 0
    THEN <<>>
    ELSE <<step.value>>
         \o RegionWalkFrom(e, next_in_region(e, step.value), fuel - 1)

RegionWalk(e, r) ==
    RegionWalkFrom(e, BlockRef_from_option_raw(mlirRegionGetFirstBlock(e, r)),
                   MaxBlocks + 1)

\* C9, as claimed: when b2 is appended to a region whose previous append
\* was of another block b1, b1.next_in_region() is b2 and
\* b2.next_in_region() is None.
C9_Original ==
    [][last'.call = "Region::append_block" =>
        LET r == last'.self
            b2 == last'.ret.value
            b1 == appended[r]
        IN /\ (b1 # NULL /\ b1 # b2 /\ b1 \in LiveBlocks(engine)) =>
                  next_in_region(engine', b1) = Some(b2)
           /\ next_in_region(engine', b2) = None]_vars

\* C9, amended: when b2 is appended to a region whose previous append was
\* of b1, and b1 has not been detached from the region since, then
\* b1.next_in_region() is b2; b2.next_in_region() is None in any case, and
\* the blocks that were in the region keep their order in front of b2.
C9_AppendBlockOrder ==
    [][last'.call = "Region::append_block" =>
        LET r == last'.self
            b2 == last'.ret.value
            b1 == appended[r]
        IN /\ (b1 # NULL /\ b1 \in LiveBlocks(engine)
                  /\ parent_region(engine, b1) = Some(r)) =>
                  next_in_region(engine', b1) = Some(b2)
           /\ next_in_region(engine', b2) = None
           /\ RegionWalk(engine', r) = Append(RegionWalk(engine, r), b2)]_vars

\* A third block appended to a region behind the two appended before it.
C9_Witness ==
    /\ last.call = "Region::append_block"
    /\ LET blks == RegionWalk(engine, last.self)
       IN /\ Len(blks) = 3
          /\ blks[3] = last.ret.value
          /\ next_in_region(engine, blks[2]) = Some(blks[3])

\* C10: detach on a block that has a parent region removes it from that
\* region's sequence, the remaining blocks keeping their order, and returns
\* Some(owned block) whose parent_region() is None and whose arguments and
\* operations are unchanged; detach on a block with no parent region returns
\* None and changes nothing.
C10_Detach ==
    [][last'.call = "detach" =>
        LET b == last'.self
            parent == parent_region(engine, b)
        IN IF parent # None
           THEN /\ last'.ret = Some(b)
                /\ RegionWalk(engine', parent.value) =
                       Remove(RegionWalk(engine, parent.value), b)
                /\ Len(RegionWalk(engine', parent.value)) =
                       Len(RegionWalk(engine, parent.value)) - 1
                /\ parent_region(engine', b) = None
                /\ b \in OwnedBlocks(host') /\ b \notin OwnedBlocks(host)
                /\ engine'.blocks[b].arguments = engine.blocks[b].arguments
                /\ Walk(engine', b) = Walk(engine, b)
                /\ \A o \in Range(Walk(engine, b)) :
                       block(engine', o) = Some(b)
           ELSE /\ last'.ret = None
                /\ UNCHANGED <<engine, host>>]_vars

\* A block holding an operation has been detached from a region in which
\* two blocks remain.
C10_Witness ==
    /\ last.call = "detach"
    /\ last.ret = Some(last.self)
    /\ Walk(engine, last.self) # <<>>
    /\ \E r \in LiveRegions(engine) : Len(RegionWalk(engine, r)) = 2

\* C14: over any number of calls of register_all_passes, sequential or
\* concurrent, mlirRegisterAllPasses executes at most once, and whenever a
\* call returns that single execution has completed: it has run exactly
\* once and the Once is complete.
C14_RegisterAllPassesOnce ==
    /\ [](passes.registered <= 1)
    /\ [][\A t \in Threads :
            passes'.calls[t] > passes.calls[t] =>
                /\ passes'.registered = 1
                /\ passes'.once = "complete"
                /\ \A u \in Threads : passes'.pc[u] \notin {"closure", "registered"}]_vars

\* Every thread has returned from several calls, and one registration has
\* run.
C14_Witness ==
    /\ \A t \in Threads : passes.calls[t] >= 2
    /\ passes.registered = 1

\* C11: append_operation, insert_operation, insert_operation_after and
\* insert_operation_before consume the owned Operation without destroying
\* the engine operation: the wrapper is gone from the host and its
\* destructor has not run, the operation is alive, unaltered and attached to
\* the block when the call returns, and an operation in a block stays alive
\* and in that block for as long as the block is alive.
C11_AttachConsumesWithoutDestroying ==
    /\ [][last'.call \in Attaching =>
            LET o == last'.ret.value
                b == last'.self
            IN /\ o \in OwnedOperations(host)
               /\ host'.operations[o] = host.operations[o] - 1
               /\ o \notin OwnedOperations(host')
               /\ o \in LiveOperations(engine')
               /\ block(engine', o) = Some(b)
               /\ o \in Range(Walk(engine', b))
               /\ engine'.operations[o] =
                      [engine.operations[o] EXCEPT !.block = b]]_vars
    /\ [][\A b \in LiveBlocks(engine) \cap LiveBlocks(engine') :
            \A o \in Range(engine.blocks[b].operations) :
                /\ o \in LiveOperations(engine')
                /\ block(engine', o) = Some(b)]_vars
    /\ [](\A b \in LiveBlocks(engine) :
            \A o \in Range(engine.blocks[b].operations) :
                o \in LiveOperations(engine) /\ o \notin OwnedOperations(host))

\* An operation inserted in front of the operations of a block that has
\* some: it is alive, in the block, and no wrapper owns it.
C11_Witness ==
    /\ last.call = "insert_operation"
    /\ last.args[1] = 0
    /\ Len(Walk(engine, last.self)) >= 2
    /\ Head(Walk(engine, last.self)) = last.ret.value
    /\ last.ret.value \in LiveOperations(engine)
    /\ last.ret.value \notin OwnedOperations(host)

\* C12: with the safe API alone (no detach), no reference the client holds
\* points to an engine object that has been destroyed.
C12_ReferencesNeverDangle ==
    \A ref \in refs : Valid(engine, ref)

\* The references of a set that point to a block or into what it contains.
Into(e, b, ref) ==
    LET c == Closure(e, {}, {b}, {})
    IN IF ref.kind = "block"
       THEN ref.raw \in c.blocks
       ELSE ref.raw \in c.operations

\* C13: detach() returning Some(owned block) invalidates no reference; the
\* references to a block and to its operations are valid while an owned
\* block wrapper for it is alive; when the owned block is dropped, the
\* block and its operations are destroyed and every reference held to them
\* is dangling.
C13_DetachedThenDropped ==
    /\ [][(last'.call = "detach" /\ last'.ret # None) =>
            /\ last'.ret.value \in OwnedBlocks(host')
            /\ \A ref \in refs : Valid(engine, ref) => Valid(engine', ref)]_vars
    /\ [](\A b \in OwnedBlocks(host) : \A ref \in refs :
            (b \in LiveBlocks(engine) /\ Into(engine, b, ref)) =>
                Valid(engine, ref))
    /\ [][\A b \in OwnedBlocks(host) \cap OwnedBlocks(host') :
            \A ref \in refs : Into(engine, b, ref) => Valid(engine', ref)]_vars
    /\ [][last'.call = "Block::drop" =>
            LET c == Closure(engine, {}, {last'.self}, {})
            IN /\ c.blocks \cap LiveBlocks(engine') = {}
               /\ c.operations \cap LiveOperations(engine') = {}
               /\ \A ref \in refs' :
                      Into(engine, last'.self, ref) => ~Valid(engine', ref)]_vars

\* A block was appended to the region, which is still alive, and an
\* operation was appended to the block; the references returned were kept;
\* the block has been detached and the owned block dropped; now the
\* reference to the block is used.
C13_Witness ==
    /\ last.call = "argument_count"
    /\ Reference("block", last.self) \in refs
    /\ last.self \notin LiveBlocks(engine)
    /\ LiveRegions(engine) # {}
    /\ \E ref \in refs : ref.kind = "operation" /\ ~Valid(engine, ref)

\* Two closures have no object in common.
Disjoint(c, d) ==
    /\ c.operations \cap d.operations = {}
    /\ c.blocks \cap d.blocks = {}
    /\ c.regions \cap d.regions = {}

\* Every object of state e outside the closure c is the same in state f.
SameOutside(e, f, c) ==
    /\ \A o \in LiveOperations(e) \ c.operations :
           f.operations[o] = e.operations[o]
    /\ \A b \in LiveBlocks(e) \ c.blocks : f.blocks[b] = e.blocks[b]
    /\ \A r \in LiveRegions(e) \ c.regions : f.regions[r] = e.regions[r]

\* C15: to_owned returns a new exclusively-owned operation, a distinct
\* engine object with the source's name, results and number of regions,
\* that is in no block even when the source is; the call changes nothing
\* that existed, so the source keeps its block and its place in it; the
\* clone shares no object with the source, and dropping an owned operation
\* (the clone, or the source) changes nothing outside what it contains.
C15_ToOwnedIndependent ==
    /\ [][last'.call = "to_owned" =>
            LET source == last'.self
                clone == last'.ret.value
            IN /\ clone # source
               /\ clone \notin LiveOperations(engine)
               /\ clone \in LiveOperations(engine')
               /\ host'.operations[clone] = 1
               /\ host' = [host EXCEPT !.operations[clone] = 1]
               /\ block(engine', clone) = None
               /\ next_in_block(engine', clone) = None
               /\ \A b \in LiveBlocks(engine') :
                      clone \notin Range(engine'.blocks[b].operations)
               /\ name(engine', clone) = name(engine, source)
               /\ engine'.operations[clone].results =
                      engine.operations[source].results
               /\ region_count(engine', clone) = region_count(engine, source)
               /\ SameOutside(engine, engine',
                              [operations |-> {}, blocks |-> {}, regions |-> {}])
               /\ block(engine', source) = block(engine, source)
               /\ next_in_block(engine', source) = next_in_block(engine, source)
               /\ Disjoint(Closure(engine', {source}, {}, {}),
                           Closure(engine', {clone}, {}, {}))]_vars
    /\ [][last'.call = "Operation::drop" =>
            SameOutside(engine, engine',
                        Closure(engine, {last'.self}, {}, {}))]_vars

\* The clone of an operation that is in a block.
C15_Witness ==
    /\ last.call = "to_owned"
    /\ block(engine, last.self) # None
    /\ block(engine, last.ret.value) = None
    /\ last.ret.value \in OwnedOperations(host)

C17_FirstOperationAndTerminator ==
    \A b \in LiveBlocks(engine) :
        LET ops == engine.blocks[b].operations
            final == ops[Len(ops)]
        IN /\ first_operation(engine, b) = None <=> ops = <<>>
           /\ ops # <<>> => first_operation(engine, b) = Some(ops[1])
           /\ ops = <<>> => terminator(engine, b) = None
           /\ (ops # <<>> /\ ~IsTerminator(name(engine, final))) =>
                  terminator(engine, b) = None
           /\ (ops # <<>> /\ IsTerminator(name(engine, final))) =>
                  terminator(engine, b) = Some(final)

\* A block of several operations that ends in a terminator and begins with
\* an operation that is none.
C17_Witness ==
    \E b \in LiveBlocks(engine) :
        LET ops == engine.blocks[b].operations
        IN /\ Len(ops) >= 2
           /\ ~IsTerminator(name(engine, ops[1]))
           /\ IsTerminator(name(engine, ops[Len(ops)]))
           /\ terminator(engine, b) = Some(ops[Len(ops)])
           /\ first_operation(engine, b) = Some(ops[1])

\* C18: add_argument(type, location) on a block with k arguments returns
\* a value; afterwards argument_count() is k + 1, the returned value is the
\* argument at position k and has the given type, the arguments at
\* positions 0..k-1 are unchanged, and so are the block's operations, its
\* parent, and everything else.
C18_AddArgument ==
    [][last'.call = "add_argument" =>
        LET b == last'.self
            k == argument_count(engine, b)
            v == last'.ret.value
        IN /\ last'.ret.tag = "Some"
           /\ argument_count(engine', b) = k + 1
           /\ argument(engine', b, k) = Ok(v)
           /\ v.type = last'.args[1]
           /\ v.position = k
           /\ \A i \in 0..(k - 1) :
                  argument(engine', b, i) = argument(engine, b, i)
           /\ Walk(engine', b) = Walk(engine, b)
           /\ parent_region(engine', b) = parent_region(engine, b)
           /\ parent_operation(engine', b) = parent_operation(engine, b)
           /\ engine' = [engine EXCEPT !.blocks[b].arguments =
                                           engine'.blocks[b].arguments]
           /\ host' = host]_vars

\* An argument added behind another one, to a block that holds an operation
\* and lies in a region.
C18_Witness ==
    /\ last.call = "add_argument"
    /\ last.ret.value.position >= 1
    /\ Walk(engine, last.self) # <<>>
    /\ parent_region(engine, last.self) # None

\* C19: for a block in a region's sequence, parent_region() is Some(that
\* region), and parent_operation() is Some(the operation that owns the
\* region) when an operation owns it; for a block in no region,
\* parent_operation() is None.
C19_ParentRegionAndOperation ==
    \A b \in LiveBlocks(engine) :
        /\ \A r \in LiveRegions(engine) :
               b \in Range(engine.regions[r].blocks) =>
                   /\ parent_region(engine, b) = Some(r)
                   /\ \A o \in LiveOperations(engine) :
                          r \in Range(engine.operations[o].regions) =>
                              parent_operation(engine, b) = Some(o)
        /\ InNoRegion(b) => parent_operation(engine, b) = None

\* A block in a region that an operation owns.
C19_Witness ==
    \E b \in LiveBlocks(engine), r \in LiveRegions(engine),
       o \in LiveOperations(engine) :
        /\ b \in Range(engine.regions[r].blocks)
        /\ r \in Range(engine.operations[o].regions)
        /\ parent_region(engine, b) = Some(r)
        /\ parent_operation(engine, b) = Some(o)

\* C20: an operation built with name N, r result types and g regions
\* reports name() = N, result_count() = r and region_count() = g while it
\* is owned; attaching it to a block changes none of the three, and neither
\* does any other call while the operation is alive.
C20_BuilderRoundTrip ==
    /\ [][last'.call = "Builder::build" =>
            LET o == last'.ret.value
            IN /\ o \in OwnedOperations(host')
               /\ block(engine', o) = None
               /\ name(engine', o) = last'.args[1]
               /\ result_count(engine', o) = Len(last'.args[2])
               /\ region_count(engine', o) = Len(last'.args[3])]_vars
    /\ [][last'.call \in Attaching =>
            LET o == last'.ret.value
            IN /\ o \in OwnedOperations(host)
               /\ block(engine', o) = Some(last'.self)
               /\ name(engine', o) = name(engine, o)
               /\ result_count(engine', o) = result_count(engine, o)
               /\ region_count(engine', o) = region_count(engine, o)]_vars
    /\ [][\A o \in LiveOperations(engine) \cap LiveOperations(engine') :
            /\ name(engine', o) = name(engine, o)
            /\ result_count(engine', o) = result_count(engine, o)
            /\ region_count(engine', o) = region_count(engine, o)]_vars

\* An operation named func.return, with a result and a region, has been
\* attached to a block.
C20_Witness ==
    /\ last.call = "append_operation"
    /\ name(engine, last.ret.value) = "func.return"
    /\ result_count(engine, last.ret.value) = 1
    /\ region_count(engine, last.ret.value) = 1
    /\ block(engine, last.ret.value) = Some(last.self)

(* ============================== Display =============================== *)

\* The most writes a failing sink accepts before it fails.
MaxWrites == 6

\* The sinks a formatter writes into: a String, and sinks that fail after
\* a number of writes.
Sinks ==
    {StringFormatter} \cup {[buffer |-> <<>>, budget |-> n] : n \in 0..MaxWrites}

\* write!(sink, "{}", block_ref)
BlockFmt ==
    \E self \in LiveBlocks(engine), formatter \in Sinks :
        /\ UNCHANGED <<engine, host>>
        /\ Record("BlockRef::fmt", self, <<formatter.budget>>,
                  BlockRef_fmt(engine, self, formatter))

\* write!(sink, "{}", operation_ref)
OperationFmt ==
    \E self \in LiveOperations(engine), formatter \in Sinks :
        /\ UNCHANGED <<engine, host>>
        /\ Record("OperationRef::fmt", self, <<formatter.budget>>,
                  OperationRef_fmt(engine, self, formatter))

\* Printing blocks and operations, linked and unlinked.
NextDisplay ==
    \/ BlockNew(ArgumentLists, OneBlock)
    \/ RegionNew(OneRegion)
    \/ RegionAppendBlock
    \/ BuilderBuild({"foo"}, ResultLists, OneOperation)
    \/ AppendOperation
    \/ BlockFmt
    \/ OperationFmt

SpecDisplay == Init /\ [][NextDisplay]_vars

\* The chunks the engine emits for the object of the formatting on record.
Emitted ==
    IF last.call = "BlockRef::fmt"
    THEN mlirBlockPrint(engine, last.self)
    ELSE mlirOperationPrint(engine, last.self)

\* C21: formatting a BlockRef or an OperationRef writes the chunks of the
\* engine into the sink in order; when a write fails, fmt returns Err and
\* the sink holds the chunks before the failing one; when every write
\* succeeds, fmt returns Ok and the sink holds every chunk.
C21_DisplayPropagatesWriteFailure ==
    last.call \in {"BlockRef::fmt", "OperationRef::fmt"} =>
        LET budget == last.args[1]
            data == last.ret
        IN IF budget < 0 \/ Len(Emitted) <= budget
           THEN /\ data.result = OkUnit
                /\ data.formatter.buffer = Emitted
           ELSE /\ data.result = FmtError
                /\ data.formatter.buffer = SubSeq(Emitted, 1, budget)

\* A block inside an operation printed into a sink that fails after some
\* chunks went through.
C21_Witness ==
    /\ last.call = "BlockRef::fmt"
    /\ last.ret.result = FmtError
    /\ Len(last.ret.formatter.buffer) >= 2
    /\ Len(last.ret.formatter.buffer) < Len(Emitted)

(* =============================== Drop ================================= *)

\* Blocks with operations, in a region of an operation or on their own,
\* and the drop of what the client owns.
NextDrop ==
    \/ BlockNew({<<>>}, OneOwnedBlock)
    \/ BlockDrop
    \/ RegionNew(OneRegion)
    \/ RegionAppendBlock
    \/ BuilderBuild({"foo"}, {<<>>}, OneOwnedOperation)
    \/ OperationDrop
    \/ AppendOperation

SpecDrop == Init /\ [][NextDrop]_vars

\* What lies beneath the object of a drop, the object included.
Beneath(e, c, self) ==
    IF c = "Block::drop"
    THEN Closure(e, {}, {self}, {})
    ELSE Closure(e, {self}, {}, {})

\* C22: the drop of an owned Block destroys the block, the operations of
\* its sequence and the regions and blocks nested in them; the drop of an
\* owned Operation destroys the operation, its regions and what they
\* hold; the engine destroys nothing else during the call, every object
\* outside that subtree stays as it was, and no wrapper but the dropped
\* one goes away.
C22_DropDestroysSubtreeOnly ==
    [][last'.call \in {"Block::drop", "Operation::drop"} =>
        LET self == last'.self
            subtree == Beneath(engine, last'.call, self)
        IN /\ destroyed' = subtree
           /\ SameOutside(engine, engine', subtree)
           /\ \A o \in OperationIds \ subtree.operations :
                  host'.operations[o] = host.operations[o]
           /\ \A b \in BlockIds \ subtree.blocks :
                  host'.blocks[b] = host.blocks[b]
           /\ host'.regions = host.regions]_vars

\* The drop of an operation took its region, the block in it and the
\* operation in that block along, and another block is still there.
C22_Witness ==
    /\ last.call = "Operation::drop"
    /\ Cardinality(destroyed.operations) = 2
    /\ destroyed.blocks # {}
    /\ destroyed.regions # {}
    /\ LiveBlocks(engine) # {}

(* ======================== positions in a block ======================== *)

\* C23: append_operation inserts at the end: a block that held o1..ok
\* holds o1..ok, op afterwards, as a walk from first_operation() along
\* next_in_block() shows; the new operation has no successor; when k >= 1
\* the successor of the former last operation is the new one and
\* first_operation() is what it was.
C23_AppendAtEnd ==
    [][last'.call = "append_operation" =>
        LET b == last'.self
            op == last'.args[1]
            before == Walk(engine, b)
            k == Len(before)
        IN /\ Walk(engine', b) = Append(before, op)
           /\ next_in_block(engine', op) = None
           /\ k >= 1 =>
                  /\ next_in_block(engine', before[k]) = Some(op)
                  /\ first_operation(engine', b) = first_operation(engine, b)
                  /\ first_operation(engine', b) = Some(before[1])]_vars

\* An append to a block that held two operations.
C23_Witness ==
    /\ last.call = "append_operation"
    /\ Len(Walk(engine, last.self)) = 3
    /\ Walk(engine, last.self)[3] = last.args[1]

\* C24: insert_operation(position, op) with 0 <= position <= k puts op at
\* index position (from 0) of the block: the operations formerly at the
\* indices below position keep their index, those at position and above
\* move up by one, the returned reference is op and its block() is the
\* block, and with position 0 op is first_operation().
C24_InsertAtPosition ==
    [][last'.call = "insert_operation" =>
        LET b == last'.self
            position == last'.args[1]
            op == last'.args[2]
            before == Walk(engine, b)
            after == Walk(engine', b)
        IN /\ position \in 0..Len(before)
           /\ Len(after) = Len(before) + 1
           /\ after[position + 1] = op
           /\ \A i \in 1..Len(before) :
                  IF i <= position
                  THEN after[i] = before[i]
                  ELSE after[i + 1] = before[i]
           /\ last'.ret = Some(op)
           /\ block(engine', last'.ret.value) = Some(b)
           /\ position = 0 => first_operation(engine', b) = Some(op)]_vars

\* An insertion between two operations.
C24_Witness ==
    /\ last.call = "insert_operation"
    /\ last.args[1] = 1
    /\ Len(Walk(engine, last.self)) = 3
    /\ Walk(engine, last.self)[2] = last.args[2]

(* =============================== reads ================================ *)

\* The engine's validation, a verdict that depends on the graph alone: here
\* an operation passes when every block beneath it ends in a terminator.
mlirOperationVerify(e, operation) ==
    \A b \in Closure(e, {operation}, {}, {}).blocks :
        mlirBlockGetTerminator(e, b) # NULL

verify(e, self) == mlirOperationVerify(e, self)

BlockReads ==
    {"argument", "argument_count", "first_operation", "terminator",
     "parent_region", "parent_operation", "next_in_region"}

OperationReads ==
    {"name", "block", "result", "result_count", "region", "region_count",
     "next_in_block", "verify"}

\* The reads that take a position, with the positions to try.
Positions(method) ==
    CASE method = "argument" -> 0..(MaxArguments + 1)
      [] method = "result" -> 0..(MaxResults + 1)
      [] method = "region" -> 0..(MaxRegions + 1)
      [] OTHER -> {0}

\* Mutant: parent_region() takes the block out of its region.
BlockRead_Detaching(method, e, h, self, position) ==
    [engine |-> IF method = "parent_region"
                   /\ mlirBlockGetParentRegion(e, self) # NULL
                THEN mlirBlockDetach(e, self)
                ELSE e,
     host |-> h,
     ret |-> IF method = "parent_region"
             THEN parent_region(e, self)
             ELSE None]

\* A read of a block through a BlockRef: the engine and the wrappers as
\* the call leaves them, and what it returns.
BlockRead(method, e, h, self, position) ==
    [engine |-> e,
     host |-> h,
     ret |-> CASE method = "argument" -> argument(e, self, position)
               [] method = "argument_count" -> argument_count(e, self)
               [] method = "first_operation" -> first_operation(e, self)
               [] method = "terminator" -> terminator(e, self)
               [] method = "parent_region" -> parent_region(e, self)
               [] method = "parent_operation" -> parent_operation(e, self)
               [] method = "next_in_region" -> next_in_region(e, self)]

\* A read of an operation through an OperationRef.
OperationRead(method, e, h, self, position) ==
    [engine |-> e,
     host |-> h,
     ret |-> CASE method = "name" -> name(e, self)
               [] method = "block" -> block(e, self)
               [] method = "result" -> result(e, self, position)
               [] method = "result_count" -> result_count(e, self)
               [] method = "region" -> region(e, self, position)
               [] method = "region_count" -> region_count(e, self)
               [] method = "next_in_block" -> next_in_block(e, self)
               [] method = "verify" -> verify(e, self)]

\* let first = block.read(..); let second = block.read(..);
BlockReadTwice ==
    \E self \in LiveBlocks(engine), method \in BlockReads :
        \E position \in Positions(method) :
            LET first == BlockRead(method, engine, host, self, position)
                second == BlockRead(method, first.engine, first.host, self,
                                    position)
            IN /\ engine' = second.engine
               /\ host' = second.host
               /\ Record("read", self, <<method, position>>,
                         <<first.ret, second.ret>>)

\* let first = operation.read(..); let second = operation.read(..);
OperationReadTwice ==
    \E self \in LiveOperations(engine), method \in OperationReads :
        \E position \in Positions(method) :
            LET first == OperationRead(method, engine, host, self, position)
                second == OperationRead(method, first.engine, first.host,
                                        self, position)
            IN /\ engine' = second.engine
               /\ host' = second.host
               /\ Record("read", self, <<method, position>>,
                         <<first.ret, second.ret>>)

\* Blocks with at most one argument and operations with at most one result.
FewArguments == SeqsUpTo(Types \X Locations, 1)
FewResults == SeqsUpTo({"i64"}, 1)

\* Reads of a block and of two operations, attached and unattached.
NextReads ==
    \/ BlockNew(FewArguments, OneBlock)
    \/ RegionNew(OneRegion)
    \/ RegionAppendBlock
    \/ BuilderBuild({"func.return"}, FewResults, TwoOperations)
    \/ AppendOperation
    \/ BlockReadTwice
    \/ OperationReadTwice

SpecReads == Init /\ [][NextReads]_vars

NextOwnership ==
    \/ BlockNew({<<>>}, OneBlock)
    \/ BlockDrop
    \/ RegionNew(OneRegion)
    \/ RegionAppendBlock
    \/ BuilderBuild({"foo"}, {<<>>}, OneOwnedOperation)
    \/ OperationDrop
    \/ ToOwned(OneOwnedOperation)
    \/ AppendOperation
    \/ InsertOperation
    \/ Detach

SpecOwnership == Init /\ [][NextOwnership]_vars

\* Operations put into blocks in each of the four ways, and blocks put
\* into a region and taken out again.
NextLinks ==
    \/ BlockNew({<<>>}, TwoBlocks)
    \/ RegionNew(OneRegion)
    \/ RegionAppendBlock
    \/ BuilderBuild({"foo"}, {<<>>}, OneOwnedOperation)
    \/ AppendOperation
    \/ InsertOperation
    \/ InsertOperationAfter
    \/ InsertOperationBefore
    \/ Detach

SpecLinks == Init /\ [][NextLinks]_vars

\* The places of block b in the block sequences of the live regions, and
\* of operation o in the operation sequences of the live blocks.
PlacesOfBlock(e, b) ==
    UNION {{<<r, i>> : i \in {j \in DOMAIN e.regions[r].blocks :
                                e.regions[r].blocks[j] = b}} :
           r \in LiveRegions(e)}

PlacesOfOperation(e, o) ==
    UNION {{<<b, i>> : i \in {j \in DOMAIN e.blocks[b].operations :
                                e.blocks[b].operations[j] = o}} :
           b \in LiveBlocks(e)}

\* C26: in every state that creating, attaching, cloning, detaching and
\* dropping lead to, every live block and every live operation has one
\* owner: one owning wrapper of the host and no place in the engine, or
\* one place in the engine and no wrapper; and no wrapper is left for an
\* object that is not live, so no drop destroys an object again.
C26_SingleOwnership ==
    /\ \A b \in BlockIds :
           IF b \in LiveBlocks(engine)
           THEN host.blocks[b] + Cardinality(PlacesOfBlock(engine, b)) = 1
           ELSE host.blocks[b] = 0
    /\ \A o \in OperationIds :
           IF o \in LiveOperations(engine)
           THEN host.operations[o]
                    + Cardinality(PlacesOfOperation(engine, o)) = 1
           ELSE host.operations[o] = 0

\* detach was asked of a block that an owning wrapper holds, with an
\* operation in it, and returned None.
C26_Witness ==
    /\ last.call = "detach"
    /\ last.ret = None
    /\ host.blocks[last.self] = 1
    /\ engine.blocks[last.self].operations # <<>>

\* C27: after any sequence of append_operation, insert_operation,
\* insert_operation_after, insert_operation_before and detach, an
\* operation has at most one place in the blocks; op.block() is Some(b)
\* exactly when op is in the sequence of b; and the walk from
\* b.first_operation() along next_in_block() goes through the sequence of
\* b in order, each operation once, and ends with None.
C27_LinksConsistent ==
    /\ \A o \in LiveOperations(engine) :
           /\ Cardinality(PlacesOfOperation(engine, o)) <= 1
           /\ \A b \in LiveBlocks(engine) :
                  block(engine, o) = Some(b)
                      <=> o \in Range(engine.blocks[b].operations)
    /\ \A b \in LiveBlocks(engine) :
           LET walk == Walk(engine, b)
           IN /\ walk = engine.blocks[b].operations
              /\ \A i, j \in 1..Len(walk) : i # j => walk[i] # walk[j]
              /\ walk # <<>> =>
                     next_in_block(engine, walk[Len(walk)]) = None

\* Three operations in a block of a region, the last one put there by
\* insert_operation_before.
C27_Witness ==
    /\ last.call = "insert_operation_before"
    /\ Len(Walk(engine, last.self)) = 3
    /\ parent_region(engine, last.self) # None

(* ========================== host allocations ========================== *)

\* C28: Block::new keeps no allocation of the host alive after it returns
\* other than the block itself: the arrays of raw types and of raw
\* locations made for the engine call are released when the call has
\* returned, and the drop of a block releases nothing but the block, so
\* Block::new followed by drop leaves the live allocations of the host as
\* they were.
C28_BlockNewReleasesArrays ==
    [][last'.call \in {"Block::new", "Block::drop"} =>
        host'.allocations = host.allocations]_vars

====
